---- MODULE Spec2Model ----
(***************************************************************************)
(* The Pexels image downloader of MovingBox                                *)
(* (scripts/download_pexels_images.py): a sequential batch that, for each  *)
(* catalog entry, checks the output file, searches, selects a candidate    *)
(* (automatically or by prompting), downloads, crops and resizes the image *)
(* and saves it as {output_dir}/{filename}.jpg, then prints a summary.     *)
(***************************************************************************)
EXTENDS Integers, Sequences, FiniteSets, TLC

(***************************************************************************)
(* Catalog: (output_filename, search_query, orientation).                  *)
(***************************************************************************)
\* variant: the second entry repeats the first entry's filename
BEACH_HOUSE_IMAGES_Duplicated ==
  <<
    <<"beach-house", "beach house exterior malibu", "landscape">>,
    <<"beach-house", "coastal living room ocean view", "landscape">>,
    <<"beach-bedroom", "white beach bedroom coastal", "landscape">>,
    <<"beach-kitchen", "coastal kitchen white modern", "landscape">>,
    <<"beach-deck", "beach house deck ocean view", "landscape">>
  >>

BEACH_HOUSE_IMAGES ==
  <<
    <<"beach-house", "beach house exterior malibu", "landscape">>,
    <<"beach-living-room", "coastal living room ocean view", "landscape">>,
    <<"beach-bedroom", "white beach bedroom coastal", "landscape">>,
    <<"beach-kitchen", "coastal kitchen white modern", "landscape">>,
    <<"beach-deck", "beach house deck ocean view", "landscape">>
  >>

HOUSEHOLD_ITEMS ==
  <<
    <<"laptop", "laptop computer desk", "landscape">>,
    <<"desktop-computer", "desktop computer setup", "landscape">>,
    <<"tablet", "tablet ipad device", "landscape">>,
    <<"smartphone", "smartphone mobile phone", "portrait">>,
    <<"headphones", "wireless headphones", "square">>,
    <<"speaker-bluetooth", "bluetooth speaker portable", "square">>,
    <<"camera-dslr", "dslr camera photography", "landscape">>,
    <<"gaming-console", "video game console", "landscape">>,
    <<"smart-watch", "smart watch wearable", "square">>,
    <<"router-wifi", "wifi router networking", "landscape">>,
    <<"microwave", "microwave oven kitchen", "landscape">>,
    <<"toaster", "toaster kitchen appliance", "landscape">>,
    <<"kettle-electric", "electric kettle kitchen", "square">>,
    <<"instant-pot", "instant pot pressure cooker", "square">>,
    <<"juicer", "juicer kitchen appliance", "square">>,
    <<"rice-cooker", "rice cooker appliance", "square">>,
    <<"knife-set", "kitchen knife set block", "landscape">>,
    <<"pots-pans", "cookware pots pans set", "landscape">>,
    <<"cutting-board", "wooden cutting board kitchen", "landscape">>,
    <<"mixer-hand", "hand mixer kitchen", "square">>,
    <<"armchair", "armchair living room", "landscape">>,
    <<"coffee-table", "coffee table living room", "landscape">>,
    <<"nightstand", "nightstand bedroom", "square">>,
    <<"dresser", "dresser bedroom furniture", "landscape">>,
    <<"wardrobe", "wardrobe closet furniture", "portrait">>,
    <<"desk-writing", "writing desk home office", "landscape">>,
    <<"dining-chairs", "dining chairs set", "landscape">>,
    <<"bookcase", "bookcase bookshelf furniture", "portrait">>,
    <<"ottoman", "ottoman footstool living room", "square">>,
    <<"console-table", "console table entryway", "landscape">>,
    <<"mirror-wall", "wall mirror decorative", "portrait">>,
    <<"vase-ceramic", "ceramic vase decorative", "portrait">>,
    <<"picture-frame", "picture frame wall art", "landscape">>,
    <<"throw-blanket", "throw blanket cozy", "landscape">>,
    <<"decorative-pillows", "decorative pillows sofa", "landscape">>,
    <<"wall-clock", "wall clock decorative", "square">>,
    <<"candle-holder", "candle holder decorative", "square">>,
    <<"plant-indoor", "indoor plant potted", "portrait">>,
    <<"mattress", "mattress bedroom", "landscape">>,
    <<"bedding-set", "bedding comforter set", "landscape">>,
    <<"pillow-sleeping", "sleeping pillows bed", "landscape">>,
    <<"lamp-bedside", "bedside lamp table", "portrait">>,
    <<"towel-set", "bath towels set", "landscape">>,
    <<"shower-head", "shower head bathroom", "square">>,
    <<"bathroom-scale", "bathroom scale digital", "square">>,
    <<"hair-dryer", "hair dryer styling", "landscape">>,
    <<"toolbox", "toolbox tools storage", "landscape">>,
    <<"ladder", "step ladder folding", "portrait">>,
    <<"lawn-mower", "lawn mower garden", "landscape">>,
    <<"vacuum-cleaner", "vacuum cleaner home", "portrait">>
  >>

TARGET_SIZE == 1920

per_page == 5

(***************************************************************************)
(* Bounds of the model.  The run iterates over a catalog of MaxEntries     *)
(* entries, the first of each category (one more of BEACH_HOUSE_IMAGES     *)
(* when MaxEntries is odd); a search returns at most MaxPhotos candidates. *)
(***************************************************************************)
MaxEntries == 3

MaxPhotos == 2

\* the largest width and height of the images drawn for the crop geometry
MaxDim == 8

Min(a, b) == IF a <= b THEN a ELSE b

Take(s, n) == SubSeq(s, 1, Min(n, Len(s)))

Range(s) == {s[i] : i \in DOMAIN s}

BeachEntries == Take(BEACH_HOUSE_IMAGES, (MaxEntries + 1) \div 2)

HouseholdEntries == Take(HOUSEHOLD_ITEMS, MaxEntries \div 2)

Categories == {"beach-house", "household", "all"}

\* variant: the two extends are swapped
SelectImagesHouseholdFirst(cat) ==
  (IF cat \in {"household", "all"} THEN HouseholdEntries ELSE <<>>)
    \o (IF cat \in {"beach-house", "all"} THEN BeachEntries ELSE <<>>)

\* main, "Determine which images to download": beach-house first, then household.
SelectImages(cat) ==
  (IF cat \in {"beach-house", "all"} THEN BeachEntries ELSE <<>>)
    \o (IF cat \in {"household", "all"} THEN HouseholdEntries ELSE <<>>)

Filenames == {e[1] : e \in Range(BeachEntries) \cup Range(HouseholdEntries)}

(***************************************************************************)
(* The output directory: filename -> the file {filename}.jpg.              *)
(***************************************************************************)
NoFile == [kind |-> "absent", width |-> 0, height |-> 0, mode |-> "-"]

\* a file left by an earlier writer (any tool), not necessarily of the target size
OldFile == [kind |-> "jpeg", width |-> 640, height |-> 480, mode |-> "RGB"]

\* a file opened for writing whose encoding did not complete
PartialFile == [kind |-> "partial", width |-> 0, height |-> 0, mode |-> "-"]

\* Path.exists()
Exists(fs, filename) == fs[filename].kind # "absent"

(***************************************************************************)
(* Images.                                                                 *)
(***************************************************************************)
NoImage == [width |-> 0, height |-> 0, mode |-> "None"]

\* decodable source images: landscape and portrait with odd and even excess, square
SourceImages ==
  { [width |-> 5, height |-> 2, mode |-> "RGB"],
    [width |-> 2, height |-> 6, mode |-> "RGBA"],
    [width |-> 3, height |-> 3, mode |-> "P"] }

\* variant: the box is taken from the top-left corner instead of the centre
CropBoxFromOrigin(width, height) ==
  LET size == Min(width, height)
  IN  <<0, 0, size, size>>

\* crop_to_square: the box (left, top, right, bottom)
CropBox(width, height) ==
  LET size == Min(width, height)
      left == (width - size) \div 2
      top == (height - size) \div 2
  IN  <<left, top, left + size, top + size>>

\* Image.crop(box): the result has the box's extent
crop_to_square(img) ==
  LET box == CropBox(img.width, img.height)
  IN  [img EXCEPT !.width = box[3] - box[1], !.height = box[4] - box[2]]

\* Image.resize((target_size, target_size))
process_image(img, target_size) ==
  [crop_to_square(img) EXCEPT !.width = target_size, !.height = target_size]

\* save_image: RGBA and P are converted to RGB, then the JPEG is written
save_image(img) ==
  [kind |-> "jpeg", width |-> img.width, height |-> img.height,
   mode |-> IF img.mode \in {"RGBA", "P"} THEN "RGB" ELSE img.mode]

(***************************************************************************)
(* The search API.  A candidate is identified by a photo id; the ranked    *)
(* list of n candidates holds the ids 101 .. 100+n in rank order.          *)
(***************************************************************************)
Candidates(n) == [i \in 1..n |-> 100 + i]

NoPhoto == 0

\* responses of requests.get(PEXELS_API_URL): the status and the JSON body's photos
Responses ==
  {[status_code |-> 200, photos |-> Candidates(n)] : n \in 0..Min(per_page, MaxPhotos)}
    \cup {[status_code |-> s, photos |-> <<>>] : s \in {401, 429, 500}}

\* search_pexels: the JSON body on status 200, otherwise None
search_pexels(response) ==
  IF response.status_code = 200
    THEN [is_none |-> FALSE, photos |-> response.photos]
    ELSE [is_none |-> TRUE, photos |-> <<>>]

\* download_and_process: not results or not results.get("photos")
NoImagesFound(results) == results.is_none \/ results.photos = <<>>

(***************************************************************************)
(* Operator input: a line is a sequence of characters.                     *)
(***************************************************************************)
InputLines ==
  { <<"s">>, <<"S">>, <<" ", "s", " ">>, <<"s", "s">>,
    <<"1">>, <<"2">>, <<"3">>, <<"4">>, <<"0">>, <<" ", "2">>,
    <<"+", "1">>, <<"-", "1">>, <<"1", "x">>, <<>> }

NoChoice == <<"None">>

Whitespace == {" ", "\t"}

RECURSIVE lstrip(_)
lstrip(s) == IF s # <<>> /\ Head(s) \in Whitespace THEN lstrip(Tail(s)) ELSE s

RECURSIVE rstrip(_)
rstrip(s) ==
  IF s # <<>> /\ s[Len(s)] \in Whitespace THEN rstrip(SubSeq(s, 1, Len(s) - 1)) ELSE s

\* str.strip()
strip(s) == rstrip(lstrip(s))

\* str.lower()
lower(s) == [i \in DOMAIN s |-> IF s[i] = "S" THEN "s" ELSE IF s[i] = "X" THEN "x" ELSE s[i]]

Digits == {"0", "1", "2", "3", "4", "5", "6", "7", "8", "9"}

DigitValue(c) ==
  CASE c = "0" -> 0 [] c = "1" -> 1 [] c = "2" -> 2 [] c = "3" -> 3 [] c = "4" -> 4
    [] c = "5" -> 5 [] c = "6" -> 6 [] c = "7" -> 7 [] c = "8" -> 8 [] c = "9" -> 9

RECURSIVE DecimalValue(_)
DecimalValue(s) ==
  IF s = <<>> THEN 0
  ELSE 10 * DecimalValue(SubSeq(s, 1, Len(s) - 1)) + DigitValue(s[Len(s)])

\* int(str): an optional sign and at least one digit; anything else is a ValueError
int(s) ==
  LET t == strip(s)
      signed == t # <<>> /\ Head(t) \in {"+", "-"}
      body == IF signed THEN Tail(t) ELSE t
      valid == body # <<>> /\ \A i \in DOMAIN body : body[i] \in Digits
  IN  IF ~valid THEN [ok |-> FALSE, value |-> 0]
      ELSE [ok |-> TRUE,
            value |-> IF signed /\ Head(t) = "-" THEN 0 - DecimalValue(body)
                      ELSE DecimalValue(body)]

\* the prompt loop's test of a choice that is not 's': idx = int(choice) - 1 in range
ValidIndex(choice, n) ==
  LET r == int(choice) IN r.ok /\ 0 <= r.value - 1 /\ r.value - 1 < n

\* photos[idx] for idx = int(choice) - 1 (Python indexes from 0)
PhotoAt(list, choice) == list[(int(choice).value - 1) + 1]

\* variant: the last result instead of the first
AutoSelectLast(list) == list[Len(list)]

\* Auto-select first result: photos[0]
AutoSelect(list) == list[1]

(***************************************************************************)
(* State.                                                                  *)
(***************************************************************************)
VARIABLES
  category, auto, size, skip_existing, \* args (--category, --auto, --size, --skip-existing)
  files,              \* the output directory
  pc,                 \* position of the single thread of control
  images_to_download, \* main's list
  idx,                \* position of the for loop in images_to_download (from 1)
  success_count, skipped_count,
  photos, choice, selected_photo, image, processed, \* locals of download_and_process
  log,                \* per finished entry: <<filename, how it ended>>, in order
  requests,           \* the network requests issued in this run, in order
  report,             \* the summary lines printed at the end of the run
  traceback,          \* the exception that ended the process, if one did
  rerun,              \* TRUE in a second run of the same command line
  first               \* what the first run left, recorded when the second starts

vars ==
  <<category, auto, size, skip_existing, files, pc, images_to_download, idx,
    success_count, skipped_count, photos, choice, selected_photo, image, processed,
    log, requests, report, traceback, rerun, first>>

args == <<category, auto, size, skip_existing>>

locals == <<photos, choice, selected_photo, image, processed>>

counters == <<success_count, skipped_count>>

Sizes == {100, TARGET_SIZE}

Filename == images_to_download[idx][1]

Succeeded(l) == {l[i][1] : i \in {j \in DOMAIN l : l[j][2] = "Success"}}

Init ==
  /\ category \in Categories
  /\ auto \in BOOLEAN
  /\ size \in Sizes
  /\ skip_existing \in BOOLEAN
  /\ files \in [Filenames -> {NoFile, OldFile}]
  /\ pc = "main"
  /\ images_to_download = <<>>
  /\ idx = 1
  /\ success_count = 0
  /\ skipped_count = 0
  /\ photos = <<>>
  /\ choice = NoChoice
  /\ selected_photo = NoPhoto
  /\ image = NoImage
  /\ processed = NoImage
  /\ log = <<>>
  /\ requests = <<>>
  /\ report = <<>>
  /\ traceback = ""
  /\ rerun = FALSE
  /\ first = [files |-> [f \in Filenames |-> NoFile], succeeded |-> {}, completed |-> FALSE]

\* main up to the loop: the list is built and the counters start at 0
Main ==
  /\ pc = "main"
  /\ images_to_download' = SelectImages(category)
  /\ success_count' = 0
  /\ skipped_count' = 0
  /\ idx' = 1
  /\ log' = <<>>
  /\ requests' = <<>>
  /\ report' = <<>>
  /\ traceback' = ""
  /\ pc' = "loop"
  /\ UNCHANGED <<args, files, locals, rerun, first>>

\* variant: the flag is parsed but the gate never consults it
ShouldSkipNever(skip, exists) == FALSE

\* variant: the gate looks at the file only
ShouldSkipIgnoresFlag(skip, exists) == exists

\* the gate of the loop: args.skip_existing and output_path.exists()
ShouldSkip(skip, exists) == skip /\ exists

\* variant: the increment is forgotten
SkippedCountForgotten(count) == count

\* skipped_count += 1
SkippedCountAfter(count) == count + 1

\* "Skipping {filename} (already exists)"; skipped_count += 1; continue
GateSkip ==
  /\ pc = "loop"
  /\ idx <= Len(images_to_download)
  /\ ShouldSkip(skip_existing, Exists(files, Filename))
  /\ skipped_count' = SkippedCountAfter(skipped_count)
  /\ log' = Append(log, <<Filename, "SkippedExisting">>)
  /\ idx' = idx + 1
  /\ UNCHANGED <<args, files, pc, images_to_download, success_count, locals,
                 requests, report, traceback, rerun, first>>

\* the entry goes on to download_and_process
GateProceed ==
  /\ pc = "loop"
  /\ idx <= Len(images_to_download)
  /\ ~ShouldSkip(skip_existing, Exists(files, Filename))
  /\ pc' = "search"
  /\ UNCHANGED <<args, files, images_to_download, idx, counters, locals, log,
                 requests, report, traceback, rerun, first>>

\* the for loop is exhausted
LoopExit ==
  /\ pc = "loop"
  /\ idx > Len(images_to_download)
  /\ pc' = "summary"
  /\ UNCHANGED <<args, files, images_to_download, idx, counters, locals, log,
                 requests, report, traceback, rerun, first>>

\* variant: the returned value is not tested
SuccessCountAlways(count, returned) == count + 1

\* download_and_process returns to main: success_count += 1 when it returned True
SuccessCountAfter(count, returned) == IF returned THEN count + 1 ELSE count

Returns(returned, how) ==
  /\ success_count' = SuccessCountAfter(success_count, returned)
  /\ log' = Append(log, <<Filename, how>>)
  /\ idx' = idx + 1
  /\ pc' = "loop"
  /\ photos' = <<>>
  /\ choice' = NoChoice
  /\ selected_photo' = NoPhoto
  /\ image' = NoImage
  /\ processed' = NoImage
  /\ UNCHANGED <<args, images_to_download, skipped_count, report, traceback, rerun, first>>

\* an exception nothing catches: the traceback ends the process (and its locals)
Raises(exception) ==
  /\ pc' = "crashed"
  /\ traceback' = exception
  /\ photos' = <<>>
  /\ choice' = NoChoice
  /\ selected_photo' = NoPhoto
  /\ image' = NoImage
  /\ processed' = NoImage
  /\ UNCHANGED <<args, images_to_download, idx, counters, log, report, rerun, first>>

\* search_pexels: requests.get (or response.json) raises; nothing catches it
SearchRaises ==
  /\ pc = "search"
  /\ requests' = Append(requests, <<"search", Filename>>)
  /\ Raises("ConnectionError")
  /\ UNCHANGED files

\* variant: an empty result is searched for a second time before giving up
SearchNoImagesRetries(response) ==
  /\ pc = "search"
  /\ NoImagesFound(search_pexels(response))
  /\ requests' = requests \o << <<"search", Filename>>, <<"search", Filename>> >>
  /\ Returns(FALSE, "NoImages")
  /\ UNCHANGED files

\* status other than 200, or no photos: "No images found", return False
SearchNoImages(response) ==
  /\ pc = "search"
  /\ NoImagesFound(search_pexels(response))
  /\ requests' = Append(requests, <<"search", Filename>>)
  /\ Returns(FALSE, "NoImages")
  /\ UNCHANGED files

SearchFound(response) ==
  /\ pc = "search"
  /\ ~NoImagesFound(search_pexels(response))
  /\ requests' = Append(requests, <<"search", Filename>>)
  /\ photos' = search_pexels(response).photos
  /\ pc' = "select"
  /\ UNCHANGED <<args, files, images_to_download, idx, counters, choice,
                 selected_photo, image, processed, log, report, traceback, rerun, first>>

\* not interactive: photos[0]
SelectAuto ==
  /\ pc = "select"
  /\ auto
  /\ selected_photo' = AutoSelect(photos)
  /\ pc' = "download"
  /\ UNCHANGED <<args, files, images_to_download, idx, counters, photos, choice,
                 image, processed, log, requests, report, traceback, rerun, first>>

\* variant: an operator's skip is counted like a skipped existing file
PromptSkipCounted(line) ==
  /\ pc = "select"
  /\ ~auto
  /\ lower(strip(line)) = <<"s">>
  /\ skipped_count' = skipped_count + 1
  /\ log' = Append(log, <<Filename, "Skipped">>)
  /\ idx' = idx + 1
  /\ pc' = "loop"
  /\ photos' = <<>>
  /\ choice' = NoChoice
  /\ selected_photo' = NoPhoto
  /\ image' = NoImage
  /\ processed' = NoImage
  /\ UNCHANGED <<args, files, images_to_download, success_count, requests, report, traceback,
                 rerun, first>>

\* interactive: input(...).strip().lower() == 's': "Skipped", return False
PromptSkip(line) ==
  /\ pc = "select"
  /\ ~auto
  /\ lower(strip(line)) = <<"s">>
  /\ Returns(FALSE, "Skipped")
  /\ UNCHANGED <<files, requests>>

\* interactive: a valid index ends the loop with selected_photo = photos[idx]
PromptSelect(line) ==
  /\ pc = "select"
  /\ ~auto
  /\ lower(strip(line)) # <<"s">>
  /\ ValidIndex(lower(strip(line)), Len(photos))
  /\ choice' = lower(strip(line))
  /\ selected_photo' = PhotoAt(photos, lower(strip(line)))
  /\ pc' = "download"
  /\ UNCHANGED <<args, files, images_to_download, idx, counters, photos,
                 image, processed, log, requests, report, traceback, rerun, first>>

\* interactive: "Invalid choice", and the loop prompts again
PromptInvalid(line) ==
  /\ pc = "select"
  /\ ~auto
  /\ lower(strip(line)) # <<"s">>
  /\ ~ValidIndex(lower(strip(line)), Len(photos))
  /\ choice' = lower(strip(line))
  /\ UNCHANGED <<args, files, pc, images_to_download, idx, counters, photos,
                 selected_photo, image, processed, log, requests, report, traceback, rerun, first>>

\* interactive: input() at the end of the input stream raises EOFError
PromptEOF ==
  /\ pc = "select"
  /\ ~auto
  /\ Raises("EOFError")
  /\ UNCHANGED <<files, requests>>

\* variant: download_image without its try/except
DownloadFailsUncaught(cause) ==
  /\ pc = "download"
  /\ cause \in {"transport", "status", "decode"}
  /\ requests' = Append(requests, <<"download", Filename>>)
  /\ Raises("ConnectionError")
  /\ UNCHANGED files

\* variant: the output file is opened for writing before the download is known to work
DownloadFailsTruncates(cause) ==
  /\ pc = "download"
  /\ cause \in {"transport", "status", "decode"}
  /\ requests' = Append(requests, <<"download", Filename>>)
  /\ Returns(FALSE, "DownloadFailed")
  /\ files' = [files EXCEPT ![Filename] = PartialFile]

\* download_image caught an exception (transport, status, undecodable): None
DownloadFails(cause) ==
  /\ pc = "download"
  /\ cause \in {"transport", "status", "decode"}
  /\ requests' = Append(requests, <<"download", Filename>>)
  /\ Returns(FALSE, "DownloadFailed")
  /\ UNCHANGED files

DownloadOK(img) ==
  /\ pc = "download"
  /\ requests' = Append(requests, <<"download", Filename>>)
  /\ image' = img
  /\ pc' = "process"
  /\ UNCHANGED <<args, files, images_to_download, idx, counters, photos, choice,
                 selected_photo, processed, log, report, traceback, rerun, first>>

\* the size download_and_process normalises to: process_image(image), so the default
ProcessSize(requested) == TARGET_SIZE

ProcessOK ==
  /\ pc = "process"
  /\ processed' = process_image(image, ProcessSize(size))
  /\ pc' = "save"
  /\ UNCHANGED <<args, files, images_to_download, idx, counters, photos, choice,
                 selected_photo, image, log, requests, report, traceback, rerun, first>>

\* the pixel data is decoded only here (Image.open is lazy): crop or resize raises
ProcessRaises ==
  /\ pc = "process"
  /\ Raises("OSError")
  /\ UNCHANGED <<files, requests>>

\* save_image wrote the file: "Saved to", return True
SaveOK ==
  /\ pc = "save"
  /\ files' = [files EXCEPT ![Filename] = save_image(processed)]
  /\ Returns(TRUE, "Success")
  /\ UNCHANGED requests

\* image.save raises: the file was not opened, or was opened and left incomplete
SaveRaises(left) ==
  /\ pc = "save"
  /\ left \in {files[Filename], PartialFile}
  /\ files' = [files EXCEPT ![Filename] = left]
  /\ Raises("OSError")
  /\ UNCHANGED requests

\* the lines printed after the loop
Summary(downloaded, total, skipped) ==
  <<[line |-> "Downloaded", count |-> downloaded, of |-> total]>>
    \o (IF skipped > 0 THEN <<[line |-> "Skipped (existing)", count |-> skipped]>> ELSE <<>>)

PrintSummary ==
  /\ pc = "summary"
  /\ report' = Summary(success_count, Len(images_to_download), skipped_count)
  /\ pc' = "done"
  /\ UNCHANGED <<args, files, images_to_download, idx, counters, locals, log,
                 requests, traceback, rerun, first>>

\* the same command line is run once more on the directory the first run left
Rerun ==
  /\ pc \in {"done", "crashed"}
  /\ ~rerun
  /\ rerun' = TRUE
  /\ first' = [files |-> files, succeeded |-> Succeeded(log), completed |-> pc = "done"]
  /\ pc' = "main"
  /\ photos' = <<>>
  /\ choice' = NoChoice
  /\ selected_photo' = NoPhoto
  /\ image' = NoImage
  /\ processed' = NoImage
  /\ UNCHANGED <<args, files, images_to_download, idx, counters, log, requests, report, traceback>>

Next ==
  \/ Main
  \/ GateSkip
  \/ GateProceed
  \/ LoopExit
  \/ SearchRaises
  \/ \E response \in Responses : SearchNoImages(response)
  \/ \E response \in Responses : SearchFound(response)
  \/ SelectAuto
  \/ \E line \in InputLines : PromptSkip(line)
  \/ \E line \in InputLines : PromptSelect(line)
  \/ \E line \in InputLines : PromptInvalid(line)
  \/ PromptEOF
  \/ \E cause \in {"transport", "status", "decode"} : DownloadFails(cause)
  \/ \E img \in SourceImages : DownloadOK(img)
  \/ ProcessOK
  \/ ProcessRaises
  \/ SaveOK
  \/ \E left \in {NoFile, OldFile, PartialFile} : SaveRaises(left)
  \/ PrintSummary

Spec == Init /\ [][Next]_vars

\* the command line with --auto and --skip-existing, run twice
InitResume == Init /\ auto /\ skip_existing

\* the steps of an automatic run (no prompt), and the second run
NextResume ==
  \/ Main
  \/ GateSkip
  \/ GateProceed
  \/ LoopExit
  \/ SearchRaises
  \/ \E response \in Responses : SearchNoImages(response)
  \/ \E response \in Responses : SearchFound(response)
  \/ SelectAuto
  \/ \E cause \in {"transport", "status", "decode"} : DownloadFails(cause)
  \/ \E img \in SourceImages : DownloadOK(img)
  \/ ProcessOK
  \/ ProcessRaises
  \/ SaveOK
  \/ \E left \in {NoFile, OldFile, PartialFile} : SaveRaises(left)
  \/ PrintSummary
  \/ Rerun

Resume == InitResume /\ [][NextResume]_vars

(***************************************************************************)
(* process_image on its own: an image of any width and height in           *)
(* 1 .. MaxDim is cropped to a square and then resized.                    *)
(***************************************************************************)
CropInit ==
  /\ category = "all"
  /\ auto = TRUE
  /\ size = TARGET_SIZE
  /\ skip_existing = FALSE
  /\ files = [f \in Filenames |-> NoFile]
  /\ pc = "process"
  /\ images_to_download = SelectImages("all")
  /\ idx = 1
  /\ success_count = 0
  /\ skipped_count = 0
  /\ photos = Candidates(1)
  /\ choice = NoChoice
  /\ selected_photo = AutoSelect(photos)
  /\ image \in [width : 1..MaxDim, height : 1..MaxDim, mode : {"RGB"}]
  /\ processed = NoImage
  /\ log = <<>>
  /\ requests = << <<"search", Filename>>, <<"download", Filename>> >>
  /\ report = <<>>
  /\ traceback = ""
  /\ rerun = FALSE
  /\ first = [files |-> [f \in Filenames |-> NoFile], succeeded |-> {}, completed |-> FALSE]

\* process_image, first statement: image = crop_to_square(image)
Crop ==
  /\ pc = "process"
  /\ processed' = crop_to_square(image)
  /\ pc' = "cropped"
  /\ UNCHANGED <<args, files, images_to_download, idx, counters, photos, choice,
                 selected_photo, image, log, requests, report, traceback, rerun, first>>

\* process_image, second statement: image.resize((target_size, target_size))
Resize ==
  /\ pc = "cropped"
  /\ processed' = process_image(image, ProcessSize(size))
  /\ pc' = "save"
  /\ UNCHANGED <<args, files, images_to_download, idx, counters, photos, choice,
                 selected_photo, image, log, requests, report, traceback, rerun, first>>

CropNext ==
  \/ Crop
  \/ Resize

CropSpec == CropInit /\ [][CropNext]_vars

(***************************************************************************)
(* Properties.                                                             *)
(***************************************************************************)
Last(s) == s[Len(s)]

\* positions of the log that ended the given way
Ended(how) == {i \in DOMAIN log : log[i][2] = how}

\* the entries that ended neither written nor skipped as existing
NotCounted == {i \in DOMAIN log : log[i][2] \notin {"Success", "SkippedExisting"}}

\* the step in which download_image returned None for the current entry
DownloadFailedStep ==
  /\ pc = "download"
  /\ Len(requests') = Len(requests) + 1
  /\ Last(requests') = <<"download", Filename>>
  /\ image' = NoImage

C2_NoFailureHaltsBatch ==
  [][(pc \in {"search", "download", "process", "save"}) => (pc' # "crashed")]_vars

\* C3 (as claimed): every entry written in this run has width and height equal
\* to the configured target size (args.size).
C3_ArtifactHasConfiguredSize ==
  \A i \in Ended("Success") :
    /\ files[log[i][1]].width = size
    /\ files[log[i][1]].height = size

\* the files present in a directory
Artifacts(fs) == {f \in Filenames : Exists(fs, f)}

\* C4 (as claimed): after a second automatic run with --skip-existing the set
\* of output files is the one the first run left, and every entry the first run
\* wrote is skipped as existing and not written again.
C4_SameArtifactsAfterSecondRun ==
  (rerun /\ first.completed /\ pc = "done" /\ auto /\ skip_existing)
    => /\ Artifacts(files) = Artifacts(first.files)
       /\ \A f \in first.succeeded : \E i \in DOMAIN log : log[i] = <<f, "SkippedExisting">>
       /\ first.succeeded \cap Succeeded(log) = {}

\* C4 (amended): in a second automatic run with --skip-existing every file the
\* first run left stays in place unchanged, and every entry the first run wrote
\* is skipped as existing and not written again; the second run can add files
\* only for entries that had none, so the set of files is the first run's
\* exactly when the second run writes none.
C4_ResumeKeepsFirstRunArtifacts ==
  (rerun /\ auto /\ skip_existing /\ pc # "main")
    => /\ \A f \in Artifacts(first.files) : files[f] = first.files[f]
       /\ first.succeeded \subseteq Artifacts(first.files)
       /\ \A i \in DOMAIN log : log[i][1] \in first.succeeded => log[i][2] = "SkippedExisting"
       /\ first.succeeded \cap Succeeded(log) = {}
       /\ pc = "done" =>
            /\ \A f \in first.succeeded \cap {e[1] : e \in Range(images_to_download)} :
                 \E i \in DOMAIN log : log[i] = <<f, "SkippedExisting">>
            /\ skipped_count >= Cardinality(first.succeeded)
            /\ Artifacts(files) = Artifacts(first.files) \cup Succeeded(log)

\* C4 witness: the second run has ended, it skipped the two entries the first
\* run wrote and wrote the one the first run did not.
C4_Witness ==
  /\ rerun /\ first.completed /\ pc = "done" /\ auto /\ skip_existing
  /\ Cardinality(first.succeeded) = 2
  /\ skipped_count = 2
  /\ Cardinality(Succeeded(log)) = 1
  /\ Artifacts(files) # Artifacts(first.files)

OperatorSkipStep == pc = "select" /\ ~auto /\ pc' = "loop"

C7_EmptySearchIsSoftMiss ==
  /\ [][(auto /\ pc = "search" /\ pc' = "loop") =>
          /\ log' = Append(log, <<Filename, "NoImages">>)
          /\ files' = files
          /\ success_count' = success_count
          /\ skipped_count' = skipped_count
          /\ idx' = idx + 1
          /\ <<"download", Filename>> \notin Range(requests')]_vars
  /\ []((auto /\ pc = "done") =>
          /\ Len(log) = Len(images_to_download)
          /\ report[1].of = Len(images_to_download)
          /\ report[1].count = Cardinality(Ended("Success"))
          /\ \A i \in DOMAIN report : report[i].line # "Failed"
          /\ \A i \in DOMAIN log :
               (<<"download", log[i][1]>> \in Range(requests) /\ log[i][2] # "DownloadFailed")
                 => /\ log[i][2] = "Success"
                    /\ files[log[i][1]].kind = "jpeg"
                    /\ files[log[i][1]].width = files[log[i][1]].height)

\* C7 witness: catalog of three entries, the second without candidates: the
\* summary says Downloaded 2/3, the first and third files exist, the second
\* does not.
C7_Witness ==
  /\ auto
  /\ pc = "done"
  /\ Len(log) = 3
  /\ log[1][2] = "Success"
  /\ log[2][2] = "NoImages"
  /\ log[3][2] = "Success"
  /\ report = <<[line |-> "Downloaded", count |-> 2, of |-> 3]>>
  /\ Exists(files, log[1][1])
  /\ ~Exists(files, log[2][1])
  /\ Exists(files, log[3][1])

\* C8: at the gate an entry is skipped (counted in skipped_count, with no
\* request and no write for it) if and only if --skip-existing is set and its
\* output file exists; otherwise it goes on to the search.
C8_GateSkipsIffResumeAndExists ==
  /\ [][(pc = "loop" /\ idx <= Len(images_to_download)) =>
          IF skip_existing /\ Exists(files, Filename)
            THEN /\ pc' = "loop"
                 /\ idx' = idx + 1
                 /\ skipped_count' = skipped_count + 1
                 /\ success_count' = success_count
                 /\ log' = Append(log, <<Filename, "SkippedExisting">>)
                 /\ requests' = requests
                 /\ files' = files
                 /\ locals' = locals
            ELSE /\ pc' = "search"
                 /\ idx' = idx
                 /\ skipped_count' = skipped_count
                 /\ success_count' = success_count
                 /\ log' = log
                 /\ requests' = requests
                 /\ files' = files]_vars
  /\ [](\A i \in Ended("SkippedExisting") :
          /\ skip_existing
          /\ Exists(files, log[i][1])
          /\ \A j \in DOMAIN requests : requests[j][2] # log[i][1])

\* C8 witness: with --skip-existing the first entry was skipped at the gate and
\* the second, whose file does not exist, is at the search.
C8_Witness ==
  /\ skip_existing
  /\ pc = "search"
  /\ idx = 2
  /\ log[1][2] = "SkippedExisting"
  /\ ~Exists(files, Filename)
  /\ requests = <<>>

\* the catalog order of a category selector: beach-house entries, then household
CatalogOrder(cat) ==
  CASE cat = "beach-house" -> BeachEntries
    [] cat = "household" -> HouseholdEntries
    [] cat = "all" -> BeachEntries \o HouseholdEntries

\* C9: the run visits the entries of the chosen categories in catalog order,
\* each once, and every request belongs to the entry after the last finished
\* one: an entry has ended before the next begins.
C9_StrictCatalogOrder ==
  /\ [](pc # "main" =>
          /\ images_to_download = CatalogOrder(category)
          /\ Len(log) <= Len(CatalogOrder(category))
          /\ \A i \in DOMAIN log : log[i][1] = CatalogOrder(category)[i][1]
          /\ \A i, j \in DOMAIN log : log[i][1] = log[j][1] => i = j
          /\ pc \in {"loop", "search", "select", "download", "process", "save", "summary"}
               => idx = Len(log) + 1
          /\ pc \in {"search", "select", "download", "process", "save"}
               => idx <= Len(CatalogOrder(category))
          /\ pc = "done" => Len(log) = Len(CatalogOrder(category)))
  /\ [][(requests' # requests) =>
          /\ requests' = Append(requests, Last(requests'))
          /\ Last(requests')[2] = CatalogOrder(category)[Len(log) + 1][1]]_vars

\* C9 witness: a run over both categories has ended, the household entry last.
C9_Witness ==
  /\ pc = "done"
  /\ category = "all"
  /\ Len(log) = 3
  /\ log[1][1] = "beach-house"
  /\ log[2][1] = "beach-living-room"
  /\ log[3][1] = "laptop"

\* what a step of the prompt loop may do: choose the candidate of the entered
\* index, skip, or prompt again
PromptOutcome ==
  /\ pc' \in {"select", "download", "loop"}
  /\ pc' = "download" =>
       /\ int(choice').ok
       /\ 1 <= int(choice').value
       /\ int(choice').value <= Len(photos)
       /\ selected_photo' = photos[int(choice').value]
  /\ pc' = "select" =>
       /\ choice' # <<"s">>
       /\ ~(int(choice').ok /\ 1 <= int(choice').value /\ int(choice').value <= Len(photos))
       /\ selected_photo' = NoPhoto
  /\ pc' = "loop" => Last(log') = <<Filename, "Skipped">>

\* C10 (as claimed): every read of the prompt either chooses the candidate of
\* the entered index, skips, or causes another prompt, and the prompt never
\* raises an uncaught exception.
C10_PromptAlwaysResolves == [][(pc = "select" /\ ~auto) => PromptOutcome]_vars

\* C10, the part that holds: every line the operator does enter resolves as
\* claimed; only the end of the input stream does not.
C10_LinesResolve ==
  [][(pc = "select" /\ ~auto /\ traceback' # "EOFError") => PromptOutcome]_vars

\* C11: in automatic mode the selection reads no operator input; with
\* candidates it chooses the first of the ranked list and goes on to the
\* download, and with no candidates the entry ends without a download request.
C11_AutomaticSelectsFirst ==
  /\ [][auto =>
          /\ pc = "select" =>
               /\ photos # <<>>
               /\ pc' = "download"
               /\ selected_photo' = photos[1]
               /\ photos' = photos
               /\ requests' = requests
          /\ (pc = "search" /\ pc' = "loop") =>
               /\ selected_photo' = NoPhoto
               /\ requests' = Append(requests, <<"search", Filename>>)
          /\ (pc = "search" /\ pc' = "select") => photos' # <<>>]_vars
  /\ [](auto =>
          /\ choice = NoChoice
          /\ traceback # "EOFError"
          /\ Ended("Skipped") = {}
          /\ pc \in {"download", "process", "save"} => selected_photo = photos[1]
          /\ \A i \in Ended("NoImages") : <<"download", log[i][1]>> \notin Range(requests))

\* C11 witness: an automatic run is at the download with the first of two
\* candidates chosen, after an entry that found no images.
C11_Witness ==
  /\ auto
  /\ pc = "download"
  /\ Len(photos) = 2
  /\ selected_photo = photos[1]
  /\ Ended("NoImages") # {}

\* the whole catalog, both categories
Catalog == BEACH_HOUSE_IMAGES \o HOUSEHOLD_ITEMS

CatalogIdentifiersDistinct ==
  \A i, j \in DOMAIN Catalog : Catalog[i][1] = Catalog[j][1] => i = j

\* C12: the filenames of all catalog entries, of both categories, are pairwise
\* distinct, and in a run no two entries of the list have the same output path:
\* every path written in the run was written by one entry.
C12_DisjointPaths ==
  /\ CatalogIdentifiersDistinct
  /\ \A i, j \in DOMAIN images_to_download :
       images_to_download[i][1] = images_to_download[j][1] => i = j
  /\ \A i, j \in Ended("Success") : log[i][1] = log[j][1] => i = j
  /\ Cardinality({log[i][1] : i \in DOMAIN log}) = Len(log)

\* C12 witness: three entries were written, to three different paths.
C12_Witness ==
  /\ pc = "done"
  /\ Cardinality(Ended("Success")) = 3
  /\ Cardinality(Succeeded(log)) = 3
  /\ \A f \in Succeeded(log) : Exists(files, f) /\ files[f] # OldFile

\* C13: for every image of width w > 0 and height h > 0 the crop box has side
\* min(w, h), left = floor((w - side) / 2), top = floor((h - side) / 2),
\* right = left + side and bottom = top + side; the box lies inside the image,
\* the excess cut off on the two sides of a dimension differs by at most one
\* pixel, and for w = h the box is the whole image.  The cropped image has
\* the extent of the box.
C13_CenterCropGeometry ==
  pc = "cropped" =>
    LET w == image.width
        h == image.height
        side == IF w <= h THEN w ELSE h
        box == CropBox(w, h)
        left == box[1]
        top == box[2]
        right == box[3]
        bottom == box[4]
    IN  /\ w > 0 /\ h > 0
        /\ 2 * left <= w - side /\ w - side < 2 * left + 2
        /\ 2 * top <= h - side /\ h - side < 2 * top + 2
        /\ right = left + side /\ bottom = top + side
        /\ 0 <= left /\ left < right /\ right <= w
        /\ 0 <= top /\ top < bottom /\ bottom <= h
        /\ (w - right) - left \in {0, 1}
        /\ (h - bottom) - top \in {0, 1}
        /\ left = 0 \/ top = 0
        /\ w = h => box = <<0, 0, w, h>>
        /\ processed.width = side /\ processed.height = side
        /\ processed.mode = image.mode

\* C13 witness: a 5x2 image (odd excess 3) was cropped to the box (1, 0, 3, 2).
C13_Witness ==
  /\ pc = "cropped"
  /\ image.width = 5 /\ image.height = 2
  /\ CropBox(image.width, image.height) = <<1, 0, 3, 2>>
  /\ processed.width = 2 /\ processed.height = 2

\* C14: in one run each entry causes at most one search request and at most one
\* download request; the download request of an entry is issued only after its
\* search returned candidates and its selection chose one of them; an entry whose
\* selection resolved to Skipped, or whose search found nothing or failed, has
\* its one search request and no request after it.
C14_NoRetriesStagesInOrder ==
  /\ [][(requests' # requests) =>
          (\E kind \in {"search", "download"} :
             /\ requests' = Append(requests, <<kind, Filename>>)
             /\ <<kind, Filename>> \notin Range(requests)
             /\ kind = "search" =>
                  /\ pc = "search"
                  /\ <<"download", Filename>> \notin Range(requests)
             /\ kind = "download" =>
                  /\ pc = "download"
                  /\ <<"search", Filename>> \in Range(requests)
                  /\ photos # <<>>
                  /\ selected_photo \in Range(photos))]_vars
  /\ [][(pc = "select" /\ pc' = "loop") => (requests' = requests)]_vars
  /\ [](/\ Cardinality(Range(requests)) = Len(requests)
        /\ \A i \in Ended("Skipped") \cup Ended("NoImages") :
             /\ <<"search", log[i][1]>> \in Range(requests)
             /\ <<"download", log[i][1]>> \notin Range(requests)
        /\ traceback = "ConnectionError" =>
             /\ Last(requests) = <<"search", Filename>>
             /\ <<"download", Filename>> \notin Range(requests))

\* C14 witness: a finished run in which one entry was skipped by the operator,
\* one found no images and one issued its download request.
C14_Witness ==
  /\ pc = "done"
  /\ Ended("Skipped") # {} /\ Ended("NoImages") # {}
  /\ \E i \in Ended("DownloadFailed") \cup Ended("Success") :
       <<"download", log[i][1]>> \in Range(requests)
  /\ Len(requests) = 4

\* C15: an entry that ends without success (skipped as existing, search empty
\* or failed, skipped by the operator, download failed) creates, deletes and
\* modifies no file, so a file that was at its output path is still there
\* unchanged; only the step of the write stage changes a file, and it changes
\* the output path of its own entry and no other.
C15_NonSuccessLeavesFilesUnchanged ==
  /\ [][(files' # files) =>
          (/\ pc = "save"
           /\ \A f \in Filenames \ {Filename} : files'[f] = files[f])]_vars
  /\ [][(Len(log') = Len(log) + 1 /\ Last(log')[2] # "Success") =>
          (files' = files)]_vars
  /\ [][(pc' = "crashed" /\ traceback' # "OSError") => (files' = files)]_vars
  /\ [](\A i \in DOMAIN log :
          log[i][2] # "Success" => files[log[i][1]] \in {NoFile, OldFile})

\* C15 witness: a finished run in which a download failed and a search found
\* nothing for entries whose old files are still in place, and one entry was written.
C15_Witness ==
  /\ pc = "done"
  /\ \E i \in Ended("DownloadFailed") : files[log[i][1]] = OldFile
  /\ \E i \in Ended("NoImages") : files[log[i][1]] = OldFile
  /\ \E i \in Ended("Success") : 
       /\ files[log[i][1]].kind = "jpeg"
       /\ files[log[i][1]].width = TARGET_SIZE

====
